---- MODULE Spec2Model ----
(***************************************************************************)
(* A model of the blueprint compiler front end: parse (parser.py), the     *)
(* completion resolver complete/_complete and property_completer           *)
(* (completions.py), and the validators of the Adw response dialog and the *)
(* list item factory extensions (language/*.py).                           *)
(*                                                                         *)
(* The program is request/response: every operation is a function of its   *)
(* inputs.  A behaviour is one request: from the idle state one operation   *)
(* is applied to inputs drawn from bounded sets, and the state then holds   *)
(* the request (req) and what the operation produced (res).                 *)
(***************************************************************************)
EXTENDS Integers, Sequences, FiniteSets, TLC

VARIABLES pc, req, res

vars == <<pc, req, res>>

(***************************************************************************)
(* Bounds of the model.                                                    *)
(***************************************************************************)
\* lexemes in a token stream handed to complete (before the end-of-file token)
MaxTokens == 3
\* lexemes in a token stream handed to _complete directly (window collection)
MaxWindowTokens == 6
\* largest source offset of an AST span
MaxOff == 2
\* children per AST node
MaxKids == 2
\* entries (classes, properties, signals, imports) the type catalog offers a generator
CatalogSize == 2

(***************************************************************************)
(* Python sequence indexing: tokens[i] accepts -len <= i < len, a negative  *)
(* index counts from the end, anything else raises IndexError.             *)
(***************************************************************************)
PyInRange(s, i) == -Len(s) <= i /\ i < Len(s)

PyAt(s, i) == IF i >= 0 THEN s[i + 1] ELSE s[Len(s) + i + 1]

Min(a, b) == IF a <= b THEN a ELSE b

RECURSIVE Flatten(_)
Flatten(ss) == IF ss = <<>> THEN <<>> ELSE Head(ss) \o Flatten(Tail(ss))

(***************************************************************************)
(* Tokens.  A token is its lexical category and its span; a stream covers   *)
(* the text without gaps and ends in a zero-width end-of-file token.        *)
(***************************************************************************)
Lexemes ==
  { [type |-> "IDENT", len |-> 2],
    [type |-> "WHITESPACE", len |-> 1],
    [type |-> "OP", len |-> 1],
    [type |-> "COMMENT", len |-> 2] }

WindowLexemes ==
  { [type |-> "OP", len |-> 1],
    [type |-> "WHITESPACE", len |-> 1],
    [type |-> "COMMENT", len |-> 2] }

\* the sequences of at most n elements of S
LexSeqs(S, n) == UNION { [1..k -> S] : k \in 0..n }

RECURSIVE LayoutFrom(_, _)
LayoutFrom(lexs, at) ==
  IF lexs = <<>> THEN <<[type |-> "EOF", start |-> at, end |-> at]>>
  ELSE <<[type |-> Head(lexs).type, start |-> at, end |-> at + Head(lexs).len]>>
       \o LayoutFrom(Tail(lexs), at + Head(lexs).len)

Tokenize(lexs) == LayoutFrom(lexs, 0)

TextLen(tokens) == tokens[Len(tokens)].end

\* parse_tree.SKIP_TOKENS, imported by completions.py through parser
SKIP_TOKENS == {"COMMENT", "WHITESPACE"}

(***************************************************************************)
(* AST nodes: the type, the span of the group, the incomplete mark and the  *)
(* ordered children.  Sibling spans are ordered and do not overlap, and a   *)
(* child's span lies inside its parent's.  A node is named by its path from *)
(* the root (the child indices followed).  The trees are a UI root, its     *)
(* ObjectContent children and at most one Property grandchild under each.   *)
(***************************************************************************)
Node(type, s, e, inc, kids) ==
  [type |-> type, start |-> s, end |-> e, incomplete |-> inc, children |-> kids]

\* a child carries no grandchild, or a Property grandchild over its whole span,
\* complete or incomplete
GrandKidChoices == {"none", "complete", "incomplete"}

GrandKids(s, e, choice) ==
  IF choice = "none" THEN <<>>
  ELSE <<Node("Property", s, e, choice = "incomplete", <<>>)>>

\* the tree of n children: child k spans bounds[2k-1]..bounds[2k]
TreeOf(n, bounds, inc, gc) ==
  Node("UI", 0, MaxOff, FALSE,
       [k \in 1..n |-> Node("ObjectContent", bounds[2 * k - 1], bounds[2 * k], inc[k],
                            GrandKids(bounds[2 * k - 1], bounds[2 * k], gc[k]))])

\* sibling spans are ordered by source position and do not overlap
Ordered(bounds) == \A k \in 1..(Len(bounds) - 1) : bounds[k] <= bounds[k + 1]

Spans(lo, hi) == { se \in (lo..hi) \X (lo..hi) : se[1] <= se[2] }

\* trees whose spans are token boundaries of the stream: the root and at most one child
AlignedKids(tokens) ==
  {<<>>} \cup
  { <<Node("ObjectContent", tokens[ij[1]].start, tokens[ij[2]].end, inc, <<>>)>> :
      ij \in Spans(1, Len(tokens)), inc \in BOOLEAN }

AlignedTrees(tokens) == { Node("UI", 0, TextLen(tokens), FALSE, ks) : ks \in AlignedKids(tokens) }

RECURSIVE NodeAt(_, _)
NodeAt(node, path) ==
  IF path = <<>> THEN node ELSE NodeAt(node.children[Head(path)], Tail(path))

RECURSIVE PathsOf(_)
PathsOf(node) ==
  {<<>>} \cup
  UNION { { <<k>> \o p : p \in PathsOf(node.children[k]) } : k \in 1..Len(node.children) }

(***************************************************************************)
(* completions.py: the completer registry.  A completer is appended to the  *)
(* completers of every node type of its applies_in list when its decorator  *)
(* runs: the language package is imported first (line 22), then the         *)
(* decorators of completions.py run from top to bottom.                     *)
(***************************************************************************)
CompletersOf(type) ==
  CASE type = "UI" ->
         <<"namespace", "object_completer", "gtk_object_completer", "template_completer">>
    [] type = "ObjectContent" ->
         <<"complete_adw_message_dialog", "complete_adw_alert_dialog", "namespace",
           "object_completer", "gtk_object_completer", "property_completer",
           "signal_completer">>
    [] type = "Template" ->
         <<"namespace", "object_completer", "gtk_object_completer">>
    [] type = "Property" -> <<"prop_value_completer">>
    [] type = "GtkDirective" -> <<"using_gtk">>
    [] OTHER -> <<>>

\* how many suggestions a generator yields: the ones that yield a fixed keyword
\* or snippet yield once, namespace yields "Gtk" and one per import, the others
\* one per catalog entry
YieldCount(completer) ==
  CASE completer \in {"using_gtk", "template_completer", "complete_adw_message_dialog",
                      "complete_adw_alert_dialog"} -> 1
    [] completer = "namespace" -> 1 + CatalogSize
    [] OTHER -> CatalogSize

\* the suggestions of one invocation, in the generator's own order
Generate(completer, path, window) ==
  [k \in 1..YieldCount(completer) |-> [by |-> completer, at |-> path, n |-> k]]

(***************************************************************************)
(* _complete, lines 43-50: the 5 previous non-skipped tokens.              *)
(***************************************************************************)
WindowSize == 5

RECURSIVE CollectPrevAppend(_, _, _)
CollectPrevAppend(tokens, token_idx, prev_tokens) ==
  IF Len(prev_tokens) < WindowSize /\ token_idx >= 0
  THEN IF ~PyInRange(tokens, token_idx)
       THEN [raised |-> TRUE, prev_tokens |-> <<>>]
       ELSE LET token == PyAt(tokens, token_idx)
            IN  CollectPrevAppend(tokens, token_idx - 1,
                                  IF token.type \notin SKIP_TOKENS
                                  THEN Append(prev_tokens, token)
                                  ELSE prev_tokens)
  ELSE [raised |-> FALSE, prev_tokens |-> prev_tokens]

RECURSIVE CollectPrev(_, _, _)
CollectPrev(tokens, token_idx, prev_tokens) ==
  IF Len(prev_tokens) < WindowSize /\ token_idx >= 0
  THEN IF ~PyInRange(tokens, token_idx)
       THEN [raised |-> TRUE, prev_tokens |-> <<>>]
       ELSE LET token == PyAt(tokens, token_idx)
            IN  CollectPrev(tokens, token_idx - 1,
                            IF token.type \notin SKIP_TOKENS
                            THEN <<token>> \o prev_tokens
                            ELSE prev_tokens)
  ELSE [raised |-> FALSE, prev_tokens |-> prev_tokens]

(***************************************************************************)
(* _complete, lines 36-41: the child the resolver descends into.           *)
(***************************************************************************)
\* the test of lines 37-39 taking the end of every span, incomplete or not
QualifiesAtEnd(child, idx) == child.start <= idx /\ idx <= child.end

Qualifies(child, idx) ==
  child.start <= idx /\ (idx < child.end \/ (idx = child.end /\ child.incomplete))

\* the first child of the loop of line 36 that passes the test, 0 when none does
RECURSIVE FirstQualifying(_, _, _)
FirstQualifying(children, idx, k) ==
  IF k > Len(children) THEN 0
  ELSE IF Qualifies(children[k], idx) THEN k
  ELSE FirstQualifying(children, idx, k + 1)

\* lines 43-53 at the node the descent stops at
Dispatch(ast_node, path, tokens, token_idx) ==
  LET w  == CollectPrev(tokens, token_idx, <<>>)
      cs == CompletersOf(ast_node.type)
  IN  IF w.raised
      THEN [status |-> "IndexError", path |-> path, window |-> <<>>,
            calls |-> <<>>, out |-> <<>>]
      ELSE [status |-> "returned", path |-> path, window |-> w.prev_tokens,
            calls |-> [i \in 1..Len(cs) |->
                         [completer |-> cs[i], node |-> path, window |-> w.prev_tokens]],
            out |-> Flatten([i \in 1..Len(cs) |-> Generate(cs[i], path, w.prev_tokens)])]

\* _complete without the return of line 41: after the child's suggestions the
\* node's own completers run as well
RECURSIVE CompleteFallThrough(_, _, _, _, _)
CompleteFallThrough(ast_node, path, tokens, idx, token_idx) ==
  LET k == FirstQualifying(ast_node.children, idx, 1)
      own == Dispatch(ast_node, path, tokens, token_idx)
  IN  IF k # 0
      THEN LET sub == CompleteFallThrough(ast_node.children[k], Append(path, k),
                                          tokens, idx, token_idx)
           IN  [sub EXCEPT !.calls = sub.calls \o own.calls, !.out = sub.out \o own.out]
      ELSE own

RECURSIVE _complete(_, _, _, _, _)
_complete(ast_node, path, tokens, idx, token_idx) ==
  LET k == FirstQualifying(ast_node.children, idx, 1)
  IN  IF k # 0
      THEN _complete(ast_node.children[k], Append(path, k), tokens, idx, token_idx)
      ELSE Dispatch(ast_node, path, tokens, token_idx)

(***************************************************************************)
(* complete, lines 56-70.                                                  *)
(***************************************************************************)
\* lines 59-63: the last token with start < idx <= end, token 0 when there is none
RECURSIVE LocateToken(_, _, _, _)
LocateToken(tokens, idx, i, token_idx) ==
  IF i >= Len(tokens) THEN token_idx
  ELSE LET token == tokens[i + 1]
       IN  LocateToken(tokens, idx, i + 1,
                       IF token.start < idx /\ idx <= token.end THEN i ELSE token_idx)

\* line 66: the token types the resolver steps back over
StepTypesWithEof == {"IDENT", "WHITESPACE", "EOF"}

StepTypes == {"IDENT", "WHITESPACE"}

\* the loop of lines 66-68 with line 67 left out
RECURSIVE StepBackKeepIdx(_, _, _, _)
StepBackKeepIdx(tokens, idx, token_idx, steps) ==
  IF ~PyInRange(tokens, token_idx)
  THEN [raised |-> TRUE, idx |-> idx, token_idx |-> token_idx, steps |-> steps]
  ELSE IF PyAt(tokens, token_idx).type \in StepTypes
  THEN StepBackKeepIdx(tokens, idx, token_idx - 1, steps + 1)
  ELSE [raised |-> FALSE, idx |-> idx, token_idx |-> token_idx, steps |-> steps]

\* lines 66-68
RECURSIVE StepBack(_, _, _, _)
StepBack(tokens, idx, token_idx, steps) ==
  IF ~PyInRange(tokens, token_idx)
  THEN [raised |-> TRUE, idx |-> idx, token_idx |-> token_idx, steps |-> steps]
  ELSE IF PyAt(tokens, token_idx).type \in StepTypes
  THEN StepBack(tokens, PyAt(tokens, token_idx).start, token_idx - 1, steps + 1)
  ELSE [raised |-> FALSE, idx |-> idx, token_idx |-> token_idx, steps |-> steps]

complete(ast_node, tokens, idx) ==
  LET located == LocateToken(tokens, idx, 0, 0)
      back    == StepBack(tokens, idx, located, 0)
      inner   == _complete(ast_node, <<>>, tokens, back.idx, back.token_idx)
      anchor  == [located |-> located, idx |-> back.idx, token_idx |-> back.token_idx,
                  steps |-> back.steps]
  IN  IF back.raised
      THEN [status |-> "IndexError", path |-> <<>>, window |-> <<>>, calls |-> <<>>,
            out |-> <<>>] @@ anchor
      ELSE inner @@ anchor

(***************************************************************************)
(* parser.py: parse.  ParseContext, the grammar engine and the AST it       *)
(* builds are not in this file; what the try block of lines 33-41 meets is  *)
(* the engine's outcome: a root group whose AST carries the errors and      *)
(* warnings of the context and of validation, or a fatal condition raised   *)
(* as one top-level error.  An empty token list is a fatal condition.       *)
(***************************************************************************)
\* Python's None, the MultipleErrors collection and the UI root node
None == [class |-> "NoneType"]

MultipleErrors(errors) == [class |-> "MultipleErrors", errors |-> errors]

UI == [class |-> "UI"]

\* diagnostics a parse context or an AST accumulates
MaxDiagnostics == 2

Diagnostics(origin, n) == [k \in 1..n |-> [origin |-> origin, n |-> k]]

EngineOutcomes(tokens) ==
  { [kind |-> "CompileError", error |-> [origin |-> "fatal", n |-> 1]],
    [kind |-> "MultipleErrors", error |-> MultipleErrors(<<[origin |-> "fatal", n |-> 1]>>)] }
  \cup
  IF tokens = <<>> THEN {}
  ELSE { [kind |-> "parsed", last_group |-> UI,
          ctx_errors |-> Diagnostics("ctx.errors", ce),
          ast_errors |-> Diagnostics("ast_node.errors", ae),
          ctx_warnings |-> Diagnostics("ctx.warnings", cw),
          ast_warnings |-> Diagnostics("ast_node.warnings", aw)] :
           ce \in 0..MaxDiagnostics, ae \in 0..MaxDiagnostics,
           cw \in 0..MaxDiagnostics, aw \in 0..MaxDiagnostics }

\* parse without the handler of lines 46-47
parseWithoutCompileErrorHandler(tokens, engine) ==
  CASE engine.kind = "parsed" ->
         LET errors   == engine.ctx_errors \o engine.ast_errors
             warnings == engine.ctx_warnings \o engine.ast_warnings
         IN  [status |-> "returned", tree |-> engine.last_group,
              errors |-> IF Len(errors) # 0 THEN MultipleErrors(errors) ELSE None,
              warnings |-> warnings]
    [] engine.kind = "MultipleErrors" ->
         [status |-> "returned", tree |-> None, errors |-> engine.error,
          warnings |-> <<>>]
    [] OTHER -> [status |-> "raised", exception |-> engine.kind]

\* parse with the test of line 43 left out: the error list is wrapped even when empty
parseAlwaysWrapsErrors(tokens, engine) ==
  CASE engine.kind = "parsed" ->
         LET errors   == engine.ctx_errors \o engine.ast_errors
             warnings == engine.ctx_warnings \o engine.ast_warnings
         IN  [status |-> "returned", tree |-> engine.last_group,
              errors |-> MultipleErrors(errors), warnings |-> warnings]
    [] engine.kind = "MultipleErrors" ->
         [status |-> "returned", tree |-> None, errors |-> engine.error,
          warnings |-> <<>>]
    [] engine.kind = "CompileError" ->
         [status |-> "returned", tree |-> None,
          errors |-> MultipleErrors(<<engine.error>>),
          warnings |-> <<>>]
    [] OTHER -> [status |-> "raised", exception |-> engine.kind]

parse(tokens, engine) ==
  CASE engine.kind = "parsed" ->
         \* lines 37-43; the assertion of line 37 fails on a missing group
         IF engine.last_group = None
         THEN [status |-> "raised", exception |-> "AssertionError"]
         ELSE LET errors   == engine.ctx_errors \o engine.ast_errors
                  warnings == engine.ctx_warnings \o engine.ast_warnings
              IN  [status |-> "returned", tree |-> engine.last_group,
                   errors |-> IF Len(errors) # 0 THEN MultipleErrors(errors) ELSE None,
                   warnings |-> warnings]
    [] engine.kind = "MultipleErrors" ->
         \* lines 44-45
         [status |-> "returned", tree |-> None, errors |-> engine.error,
          warnings |-> <<>>]
    [] engine.kind = "CompileError" ->
         \* lines 46-47
         [status |-> "returned", tree |-> None,
          errors |-> MultipleErrors(<<engine.error>>),
          warnings |-> <<>>]
    [] OTHER ->
         \* no other exception is handled
         [status |-> "raised", exception |-> engine.kind]

(***************************************************************************)
(* completions.py: property_completer, lines 132-197.  A property has a    *)
(* name and a catalog type; the snippet of its suggestion is modelled by    *)
(* its form and, for a choice, the choices offered.                         *)
(***************************************************************************)
\* line 168: enumerations of more members get no choice list
ChoiceLimit == 10

\* properties of a class
MaxProps == 2

EnumMembers(n) == [k \in 1..n |-> <<"member", k>>]

PropTypes ==
  { [kind |-> "BoolType", full_name |-> "gboolean"],
    [kind |-> "StringType", full_name |-> "gchararray", translated |-> TRUE],
    [kind |-> "StringType", full_name |-> "gchararray", translated |-> FALSE],
    [kind |-> "Class", full_name |-> "Gtk.Expression"],
    [kind |-> "Class", full_name |-> "Gtk.Widget"],
    [kind |-> "IntType", full_name |-> "gint"] }
  \cup
  { [kind |-> "Enumeration", full_name |-> "Gtk.Align", members |-> EnumMembers(n)] :
      n \in {1, 2, ChoiceLimit, ChoiceLimit + 1} }

Suggestion(prop_name, form, choices) ==
  [label |-> prop_name, kind |-> "Property", form |-> form, choices |-> choices]

\* the chain of lines 139-197 with the client test of line 169 left out
SuggestionForChoiceAlways(prop_name, type, supports_choice) ==
  IF type.kind = "BoolType" /\ supports_choice
  THEN Suggestion(prop_name, "choice", <<"true", "false">>)
  ELSE IF type.kind = "StringType"
  THEN Suggestion(prop_name, IF type.translated THEN "translated_string" ELSE "string", <<>>)
  ELSE IF type.kind = "Enumeration" /\ Len(type.members) <= ChoiceLimit
  THEN Suggestion(prop_name, "choice", type.members)
  ELSE IF type.full_name = "Gtk.Expression"
  THEN Suggestion(prop_name, "expr", <<>>)
  ELSE Suggestion(prop_name, "empty", <<>>)

\* lines 139-197: the suggestion for one property
SuggestionFor(prop_name, type, supports_choice) ==
  IF type.kind = "BoolType" /\ supports_choice
  THEN Suggestion(prop_name, "choice", <<"true", "false">>)
  ELSE IF type.kind = "StringType"
  THEN Suggestion(prop_name, IF type.translated THEN "translated_string" ELSE "string", <<>>)
  ELSE IF /\ type.kind = "Enumeration"
          /\ Len(type.members) <= ChoiceLimit
          /\ supports_choice
  THEN Suggestion(prop_name, "choice", type.members)
  ELSE IF type.full_name = "Gtk.Expression"
  THEN Suggestion(prop_name, "expr", <<>>)
  ELSE Suggestion(prop_name, "empty", <<>>)

\* gir_class is None, or a class with its properties in catalog order
property_completer(gir_class, supports_choice) ==
  IF gir_class = None THEN <<>>
  ELSE [k \in 1..Len(gir_class.properties) |->
          SuggestionFor(<<"prop", k>>, gir_class.properties[k], supports_choice)]

(***************************************************************************)
(* language/adw_response_dialog.py and gtk_list_item_factory.py: the        *)
(* uniqueness validators.  AstNode.validate_unique_in_parent is not in      *)
(* these files: it looks at the siblings before the node, in child order,   *)
(* and reports the node when one of the same type passes the check.  Every  *)
(* validator of every node runs and every diagnostic is collected.          *)
(***************************************************************************)
\* sibling nodes under one parent
MaxSiblings == 3

\* the check of line 100 passing for every earlier response
ResponseIdCheckAny(child, self) == TRUE

\* ExtAdwResponseDialogResponse.unique_in_parent, line 100
ResponseIdCheck(child, self) == child.id = self.id

\* ExtAdwResponseDialogFlag.unique, line 41
FlagCheck(child, self) == child.flag = self.flag

\* ExtAdwResponseDialogFlag.exclusive, line 49
ExclusiveCheck(child, self) == child.flag \in {"destructive", "suggested"}

\* the check a validator hands to validate_unique_in_parent; None passes always
Check(check, child, self) ==
  CASE check = "None" -> TRUE
    [] check = "response id" -> ResponseIdCheck(child, self)
    [] check = "flag" -> FlagCheck(child, self)
    [] check = "exclusive" -> ExclusiveCheck(child, self)

validate_unique_in_parent(children, k, check) ==
  \E j \in 1..(k - 1) :
    /\ children[j].type = children[k].type
    /\ Check(check, children[j], children[k])

\* the uniqueness validators of a node type, in the order the class declares them
ValidatorsOf(type) ==
  CASE type = "ExtAdwResponseDialogFlag" -> <<"unique", "exclusive">>
    [] type = "ExtAdwResponseDialogResponse" -> <<"unique_in_parent">>
    [] type = "ExtAdwResponseDialog" -> <<"unique_in_parent">>
    [] type = "ExtListItemFactory" -> <<"unique_in_parent">>
    [] OTHER -> <<>>

\* whether the validator of child k raises
Raises(children, k, validator) ==
  LET self == children[k]
  IN  CASE self.type = "ExtAdwResponseDialogFlag" /\ validator = "unique" ->
             validate_unique_in_parent(children, k, "flag")
        [] self.type = "ExtAdwResponseDialogFlag" /\ validator = "exclusive" ->
             /\ self.flag \in {"destructive", "suggested"}
             /\ validate_unique_in_parent(children, k, "exclusive")
        [] self.type = "ExtAdwResponseDialogResponse" ->
             validate_unique_in_parent(children, k, "response id")
        [] self.type \in {"ExtAdwResponseDialog", "ExtListItemFactory"} ->
             validate_unique_in_parent(children, k, "None")

\* the message of the error the validator raises
MessageOf(self, validator) ==
  CASE self.type = "ExtAdwResponseDialogFlag" /\ validator = "unique" ->
         <<"Duplicate flag", self.flag>>
    [] self.type = "ExtAdwResponseDialogFlag" /\ validator = "exclusive" ->
         <<"'suggested' and 'destructive' are exclusive">>
    [] self.type = "ExtAdwResponseDialogResponse" -> <<"Duplicate response ID", self.id>>
    [] self.type = "ExtAdwResponseDialog" -> <<"Duplicate responses block">>
    [] self.type = "ExtListItemFactory" -> <<"Duplicate template block">>

\* the diagnostics of child k: each of its validators runs, each error is kept
ValidateNode(children, k) ==
  LET vs == ValidatorsOf(children[k].type)
  IN  Flatten([i \in 1..Len(vs) |->
                 IF Raises(children, k, vs[i])
                 THEN <<[node |-> k, message |-> MessageOf(children[k], vs[i])]>>
                 ELSE <<>>])

\* the diagnostics validation collects from the children of one parent
ValidateChildren(children) ==
  Flatten([k \in 1..Len(children) |-> ValidateNode(children, k)])

ResponseIds == {"cancel", "ok"}

Responses == { [type |-> "ExtAdwResponseDialogResponse", id |-> i] : i \in ResponseIds }

Blocks == { [type |-> t] : t \in {"ExtAdwResponseDialog", "ExtListItemFactory", "Object"} }

Flags ==
  { [type |-> "ExtAdwResponseDialogFlag", flag |-> f] :
      f \in {"destructive", "suggested", "disabled"} }

(***************************************************************************)
(* The requests.                                                           *)
(***************************************************************************)
OpStream == Tokenize([k \in 1..MaxOff |-> [type |-> "OP", len |-> 1]])

Init ==
  /\ pc = "idle"
  /\ req = [op |-> "none"]
  /\ res = [status |-> "none"]

CompleteRequest(ast_node, tokens, idx) ==
  /\ req' = [op |-> "complete", ast_node |-> ast_node, tokens |-> tokens, idx |-> idx]
  /\ res' = complete(ast_node, tokens, idx)
  /\ pc' = "done"

\* complete on a short stream of every lexeme and a tree aligned to it
Complete ==
  /\ pc = "idle"
  /\ \E lexs \in LexSeqs(Lexemes, MaxTokens) :
       \E t \in AlignedTrees(Tokenize(lexs)), i \in 0..(TextLen(Tokenize(lexs)) + 1) :
         CompleteRequest(t, Tokenize(lexs), i)

\* complete on a stream of operators and every tree over its offsets
CompleteInTree ==
  /\ pc = "idle"
  /\ \E n \in 0..MaxKids :
       \E bounds \in [1..(2 * n) -> 0..MaxOff] :
         /\ Ordered(bounds)
         /\ \E inc \in [1..n -> BOOLEAN], gc \in [1..n -> GrandKidChoices],
               i \in 0..(MaxOff + 1) :
              CompleteRequest(TreeOf(n, bounds, inc, gc), OpStream, i)

\* _complete on the root alone, for every stream and every anchor token index
InnerComplete ==
  /\ pc = "idle"
  /\ \E lexs \in LexSeqs(WindowLexemes, MaxWindowTokens) :
       \E a \in (-1)..Len(lexs) :
         LET tokens == Tokenize(lexs)
             root   == Node("UI", 0, TextLen(tokens), FALSE, <<>>)
         IN  /\ req' = [op |-> "_complete", ast_node |-> root, tokens |-> tokens,
                        idx |-> TextLen(tokens), token_idx |-> a]
             /\ res' = _complete(root, <<>>, tokens, TextLen(tokens), a)
                         @@ [located |-> a, idx |-> TextLen(tokens), token_idx |-> a,
                             steps |-> 0]
  /\ pc' = "done"

\* parse on the empty token list and on short streams, for every outcome of the engine
Parse ==
  /\ pc = "idle"
  /\ \E tokens \in {<<>>} \cup {Tokenize(lexs) : lexs \in LexSeqs(Lexemes, 1)} :
       \E engine \in EngineOutcomes(tokens) :
         /\ req' = [op |-> "parse", tokens |-> tokens, engine |-> engine]
         /\ res' = parse(tokens, engine)
  /\ pc' = "done"

\* property_completer on every class of at most MaxProps properties
PropertyCompleter ==
  /\ pc = "idle"
  /\ \E gir_class \in {None} \cup
                       { [properties |-> ps] : ps \in LexSeqs(PropTypes, MaxProps) },
        supports_choice \in BOOLEAN :
       /\ req' = [op |-> "property_completer", gir_class |-> gir_class,
                  supports_choice |-> supports_choice]
       /\ res' = [status |-> "returned",
                  out |-> property_completer(gir_class, supports_choice)]
  /\ pc' = "done"

(***************************************************************************)
(* language/gtk_list_item_factory.py: the validators of one 'template'      *)
(* sub-block.  TypeName, the catalog, validate_parent_type and the scope    *)
(* context are not in this file: a type name is a class of the catalog with *)
(* its full name and its GLib name, the parent is a class of the catalog,   *)
(* and the scope context either finds a duplicate object id in the block's  *)
(* content or does not.                                                     *)
(***************************************************************************)
\* the classes a type name of the block can resolve to
CatalogClasses ==
  { [ns |-> "Gtk", name |-> "ListItem",
     full_name |-> "Gtk.ListItem", glib_type_name |-> "GtkListItem"],
    [ns |-> "Gtk", name |-> "ListHeader",
     full_name |-> "Gtk.ListHeader", glib_type_name |-> "GtkListHeader"],
    [ns |-> "Gtk", name |-> "ColumnViewRow",
     full_name |-> "Gtk.ColumnViewRow", glib_type_name |-> "GtkColumnViewRow"],
    [ns |-> "Gtk", name |-> "ColumnViewCell",
     full_name |-> "Gtk.ColumnViewCell", glib_type_name |-> "GtkColumnViewCell"],
    [ns |-> "Gtk", name |-> "Box",
     full_name |-> "Gtk.Box", glib_type_name |-> "GtkBox"],
    [ns |-> "Adw", name |-> "Bin",
     full_name |-> "Adw.Bin", glib_type_name |-> "AdwBin"] }

\* self.root.gir.get_type(name, ns)
get_type(name, ns) ==
  CHOOSE c \in CatalogClasses : c.ns = ns /\ c.name = name

\* a TypeName child naming the class c
TypeName(c) ==
  [type |-> "TypeName", gir_type |-> [full_name |-> c.full_name],
   glib_type_name |-> c.glib_type_name]

\* the grammar of lines 14-20: 'template', an optional type name, the content
TemplateBlocks ==
  { [type |-> "ExtListItemFactory", TypeName |-> tn, duplicate_ids |-> d] :
      tn \in {<<>>} \cup { <<TypeName(c)>> : c \in CatalogClasses },
      d \in BOOLEAN }

\* the classes of the object the sub-block is written in
ParentClasses == {"Gtk.BuilderListItemFactory", "Gtk.Box"}

\* a diagnostic a validator raises, attributed to the node it ran on
CompileError(k, message) ==
  [node |-> k, class |-> "CompileError", message |-> message, actions |-> <<>>]

UpgradeWarning(k, message, actions) ==
  [node |-> k, class |-> "UpgradeWarning", message |-> message, actions |-> actions]

\* lines 39-44
type_name(self) ==
  IF Len(self.TypeName) = 1 THEN self.TypeName[1] ELSE None

\* lines 46-51
gir_class(self) ==
  IF type_name(self) # None
  THEN type_name(self).gir_type
  ELSE [full_name |-> get_type("ListItem", "Gtk").full_name]

\* lines 53-60
container_is_builder_list(parent, k) ==
  IF parent # "Gtk.BuilderListItemFactory"
  THEN <<CompileError(k, <<parent, "is not a Gtk.BuilderListItemFactory">>)>>
  ELSE <<>>

\* lines 62-64
unique_in_parent(children, k) ==
  IF validate_unique_in_parent(children, k, "None")
  THEN <<CompileError(k, <<"Duplicate template block">>)>>
  ELSE <<>>

\* the type validator accepting Gtk.ListItem alone
type_is_list_itemOnly(self, k) ==
  IF type_name(self) # None /\ type_name(self).glib_type_name # "GtkListItem"
  THEN <<CompileError(k, <<"Only Gtk.ListItem, Gtk.ListHeader, Gtk.ColumnViewRow, or Gtk.ColumnViewCell is allowed as a type here">>)>>
  ELSE <<>>

\* lines 66-77
type_is_list_item(self, k) ==
  IF /\ type_name(self) # None
     /\ type_name(self).glib_type_name \notin
          {"GtkListItem", "GtkListHeader", "GtkColumnViewRow", "GtkColumnViewCell"}
  THEN <<CompileError(k, <<"Only Gtk.ListItem, Gtk.ListHeader, Gtk.ColumnViewRow, or Gtk.ColumnViewCell is allowed as a type here">>)>>
  ELSE <<>>

\* lines 79-90
type_name_upgrade(self, k) ==
  IF type_name(self) = None
  THEN <<UpgradeWarning(k, <<"Expected type name after 'template' keyword">>,
           <<[title |-> "Add ListItem type to template block (introduced in blueprint 0.8.0)",
              replace_with |-> "template ListItem"]>>)>>
  ELSE <<>>

\* lines 96-98
unique_ids(self, k) ==
  IF self.duplicate_ids THEN <<CompileError(k, <<"Duplicate object ID">>)>> ELSE <<>>

\* every validator of the sub-block k runs; what each raises is kept
ValidateTemplate(parent, children, k) ==
  container_is_builder_list(parent, k)
    \o unique_in_parent(children, k)
    \o type_is_list_item(children[k], k)
    \o type_name_upgrade(children[k], k)
    \o unique_ids(children[k], k)

\* the diagnostics of the sub-blocks of one object, its errors and its warnings
ValidateTemplates(parent, children) ==
  LET all == Flatten([k \in 1..Len(children) |-> ValidateTemplate(parent, children, k)])
  IN  [status |-> "returned",
       gir_class |-> [k \in 1..Len(children) |-> gir_class(children[k])],
       errors |-> SelectSeq(all, LAMBDA d : d.class = "CompileError"),
       warnings |-> SelectSeq(all, LAMBDA d : d.class = "UpgradeWarning")]

ValidateRequest(parent, children) ==
  /\ req' = [op |-> "validate", parent |-> parent, children |-> children]
  /\ res' = [status |-> "returned", diagnostics |-> ValidateChildren(children)]

\* validation of the responses of a responses block
ValidateResponses ==
  /\ pc = "idle"
  /\ \E children \in LexSeqs(Responses, MaxSiblings) :
       ValidateRequest("ExtAdwResponseDialog", children)
  /\ pc' = "done"

\* validation of the blocks in the content of one object
ValidateBlocks ==
  /\ pc = "idle"
  /\ \E children \in LexSeqs(Blocks, MaxSiblings) :
       ValidateRequest("ObjectContent", children)
  /\ pc' = "done"

\* validation of the flags of one response
ValidateFlags ==
  /\ pc = "idle"
  /\ \E children \in LexSeqs(Flags, MaxSiblings) :
       ValidateRequest("ExtAdwResponseDialogResponse", children)
  /\ pc' = "done"

\* validation of the 'template' sub-blocks written in one object
ValidateTemplateBlocks ==
  /\ pc = "idle"
  /\ \E children \in LexSeqs(TemplateBlocks, MaxSiblings), parent \in ParentClasses :
       /\ req' = [op |-> "validate_templates", parent |-> parent, children |-> children]
       /\ res' = ValidateTemplates(parent, children)
  /\ pc' = "done"

Next ==
  \/ Parse
  \/ PropertyCompleter
  \/ ValidateResponses
  \/ ValidateBlocks
  \/ ValidateFlags
  \/ ValidateTemplateBlocks
  \/ Complete
  \/ CompleteInTree
  \/ InnerComplete

Spec == Init /\ [][Next]_vars

(***************************************************************************)
(* Properties of the completion resolver.                                  *)
(***************************************************************************)
CompleteDone == pc = "done" /\ req.op = "complete"

ResolverDone == pc = "done" /\ req.op \in {"complete", "_complete"}

\* the span rule as the specification words it
SpanQualifies(child, offset) ==
  \/ child.start <= offset /\ offset < child.end
  \/ offset = child.end /\ child.incomplete

QualifyingKids(node, offset) ==
  { k \in 1..Len(node.children) : SpanQualifies(node.children[k], offset) }

SetMin(S) == CHOOSE m \in S : \A o \in S : m <= o

SetMax(S) == CHOOSE m \in S : \A o \in S : o <= m

\* the node the specification's rule stops at: descend only into a sole qualifying child
RECURSIVE SoleChildPath(_, _)
SoleChildPath(node, offset) ==
  LET q == QualifyingKids(node, offset)
  IN  IF Cardinality(q) = 1
      THEN <<SetMin(q)>> \o SoleChildPath(node.children[SetMin(q)], offset)
      ELSE <<>>

\* path follows, at every level, the first qualifying child, and ends at a node
\* none of whose children qualifies
FollowsFirstQualifying(root, offset, path) ==
  /\ \A i \in 1..Len(path) :
       LET q == QualifyingKids(NodeAt(root, SubSeq(path, 1, i - 1)), offset)
       IN  q # {} /\ path[i] = SetMin(q)
  /\ QualifyingKids(NodeAt(root, path), offset) = {}

RECURSIVE NonEmptySpans(_)
NonEmptySpans(node) ==
  /\ \A k \in 1..Len(node.children) :
       /\ node.children[k].start < node.children[k].end
       /\ NonEmptySpans(node.children[k])

\* C3 as claimed: the resolver descends into a child only if exactly one child's
\* span qualifies for the offset; when none or more than one qualifies, the
\* current node is the innermost match whose completers are invoked.  (Stated
\* for trees without zero-width nodes.)
C3_DescendsOnlyIntoSoleChild ==
  CompleteDone /\ NonEmptySpans(req.ast_node) =>
    /\ res.path = SoleChildPath(req.ast_node, res.idx)
    /\ \A i \in 1..Len(res.calls) : res.calls[i].node = res.path

\* C3 amended: at each level the resolver descends into the first child, in
\* child order, whose span qualifies for the offset (start <= offset < end, or
\* offset = end and the child is incomplete), also when more than one child
\* qualifies; the node none of whose children qualifies is the innermost match
\* and its completers are the ones invoked.
C3_DescendsIntoFirstQualifying ==
  CompleteDone =>
    /\ res.path \in PathsOf(req.ast_node)
    /\ FollowsFirstQualifying(req.ast_node, res.idx, res.path)
    /\ \A i \in 1..Len(res.calls) : res.calls[i].node = res.path

\* an incomplete child ending at the offset is followed by a sibling starting
\* there, and the resolver went into the first of the two
C3_Witness ==
  /\ CompleteDone
  /\ NonEmptySpans(req.ast_node)
  /\ Cardinality(QualifyingKids(req.ast_node, res.idx)) >= 2
  /\ Len(res.path) = 2
  /\ res.path[1] = 1
  /\ res.calls # <<>>

NonSkippable(token) == token.type \notin {"WHITESPACE", "COMMENT"}

\* the non-skippable tokens among tokens[0..anchor], in source order
PrefixTokens(tokens, anchor) == SelectSeq(SubSeq(tokens, 1, anchor + 1), NonSkippable)

\* C4: the window passed to the completers holds at most 5 tokens, none of a
\* skippable category, in source order, and is exactly the last min(5, n)
\* non-skippable tokens among tokens[0..anchor], n being their number.
C4_TrailingWindow ==
  ResolverDone =>
    LET ns == PrefixTokens(req.tokens, res.token_idx)
        n  == Len(ns)
        w  == res.window
    IN  /\ res.status = "returned"
        /\ Len(w) <= 5
        /\ \A i \in 1..Len(w) : NonSkippable(w[i])
        /\ \A i \in 1..(Len(w) - 1) : w[i].start < w[i + 1].start
        /\ w = SubSeq(ns, n - Min(5, n) + 1, n)
        /\ \A i \in 1..Len(res.calls) : res.calls[i].window = w

\* more than 5 non-skippable tokens precede the anchor, and a skippable token
\* lies between two tokens of the window
C4_Witness ==
  /\ ResolverDone
  /\ Len(PrefixTokens(req.tokens, res.token_idx)) > 5
  /\ Len(res.window) = 5
  /\ \E k \in 1..Len(req.tokens) :
       /\ ~NonSkippable(req.tokens[k])
       /\ res.window[1].start < req.tokens[k].start
       /\ req.tokens[k].start < res.window[5].start

\* the token the cursor is located at: the one with start < offset <= end,
\* the first token when there is none
LocatedAt(tokens, offset) ==
  LET hit == { i \in 0..(Len(tokens) - 1) :
                 tokens[i + 1].start < offset /\ offset <= tokens[i + 1].end }
  IN  IF hit = {} THEN 0 ELSE SetMax(hit)

Trivial(token) == token.type \in {"IDENT", "WHITESPACE"}

\* the tokens before token i that are neither identifier nor whitespace
PriorNonTrivial(tokens, i) == { j \in 0..(i - 1) : ~Trivial(tokens[j + 1]) }

\* C5 as claimed: when the located token is an identifier or whitespace, the
\* anchor is the nearest preceding token that is neither, and the offset of the
\* descent is the start offset of that token; otherwise offset and anchor token
\* are unchanged.
C5_ReanchorsAtStartOfPrior ==
  CompleteDone =>
    LET i == LocatedAt(req.tokens, req.idx)
        prior == PriorNonTrivial(req.tokens, i)
    IN  IF Trivial(req.tokens[i + 1])
        THEN prior # {} =>
               /\ res.token_idx = SetMax(prior)
               /\ res.idx = req.tokens[SetMax(prior) + 1].start
        ELSE res.token_idx = i /\ res.idx = req.idx

\* C5 amended: when the located token is an identifier or whitespace, the
\* anchor is the nearest preceding token that is neither (index -1 when there
\* is none), and the offset of the descent is the start offset of the earliest
\* identifier or whitespace token stepped over: the end offset, not the start
\* offset, of that prior token, and 0 when there is none.  Otherwise offset and
\* anchor token are unchanged.
C5_ReanchorsAtEndOfPrior ==
  CompleteDone =>
    LET i == LocatedAt(req.tokens, req.idx)
        prior == PriorNonTrivial(req.tokens, i)
    IN  /\ res.located = i
        /\ IF Trivial(req.tokens[i + 1])
           THEN IF prior # {}
                THEN /\ res.token_idx = SetMax(prior)
                     /\ res.idx = req.tokens[SetMax(prior) + 1].end
                     /\ res.idx = req.tokens[SetMax(prior) + 2].start
                ELSE /\ res.token_idx = -1
                     /\ res.idx = 0
           ELSE res.token_idx = i /\ res.idx = req.idx

\* the cursor is in whitespace after an identifier, and both are stepped over
\* back to an operator
C5_Witness ==
  /\ CompleteDone
  /\ req.tokens[res.located + 1].type = "WHITESPACE"
  /\ res.steps = 2
  /\ res.token_idx >= 0
  /\ req.tokens[res.token_idx + 1].type = "OP"
  /\ res.idx < req.idx

\* C6: on a stream ending in an end-of-file token, for every offset, complete
\* returns without raising; the backward step stops after at most one step
\* per token up to the located one and never leaves the token stream.
C6_CompleteReturns ==
  CompleteDone =>
    /\ res.status = "returned"
    /\ res.steps <= res.located + 1
    /\ res.token_idx >= -1
    /\ res.token_idx < Len(req.tokens)

\* the cursor is inside a leading identifier with no earlier token: the step
\* back wraps to the end-of-file token and stops
C6_Witness ==
  /\ CompleteDone
  /\ res.status = "returned"
  /\ req.tokens[1].type = "IDENT"
  /\ req.idx = 1
  /\ res.token_idx = -1

\* the position of a completer in the registration order of a node type
Rank(type, completer) ==
  CHOOSE i \in 1..Len(CompletersOf(type)) : CompletersOf(type)[i] = completer

\* C7: only completers of the innermost matched node are invoked, each exactly
\* once and with the same trailing window, and the result is their outputs
\* concatenated in registration order, each output in the generator's order.
C7_CompleterDispatch ==
  CompleteDone /\ res.status = "returned" =>
    LET type == NodeAt(req.ast_node, res.path).type
        cs   == CompletersOf(type)
        By(c) == SelectSeq(res.out, LAMBDA item : item.by = c)
    IN  /\ Len(res.calls) = Len(cs)
        /\ \A i \in 1..Len(res.calls) :
             /\ res.calls[i].node = res.path
             /\ res.calls[i].window = res.window
             /\ res.calls[i].completer = cs[i]
        /\ \A i \in 1..Len(res.out) :
             /\ res.out[i].at = res.path
             /\ \E k \in 1..Len(cs) : cs[k] = res.out[i].by
        /\ \A i \in 1..Len(cs) : By(cs[i]) = Generate(cs[i], res.path, res.window)
        /\ \A i \in 1..(Len(res.out) - 1) :
             Rank(type, res.out[i].by) <= Rank(type, res.out[i + 1].by)

\* the innermost node is a grandchild: its parent and the root have completers
\* of their own, and none of them ran
C7_Witness ==
  /\ CompleteDone
  /\ Len(res.path) = 2
  /\ Len(res.out) > 0
  /\ CompletersOf(req.ast_node.type) # <<>>

(***************************************************************************)
(* Properties of parse.                                                    *)
(***************************************************************************)
ParseDone == pc = "done" /\ req.op = "parse"

PropsDone == pc = "done" /\ req.op = "property_completer" /\ req.gir_class # None

Bounded(type) == type.kind = "Enumeration" /\ Len(type.members) <= ChoiceLimit

\* C8 as claimed: one suggestion per property; a boolean yields the true/false
\* picker when the client supports choices and the empty placeholder when it
\* does not, a translatable string the translatable-string snippet, a bounded
\* enumeration a choice list of its members, any other type the empty
\* placeholder.
C8_FormByKindAsClaimed ==
  PropsDone =>
    /\ Len(res.out) = Len(req.gir_class.properties)
    /\ \A k \in 1..Len(res.out) :
         LET type == req.gir_class.properties[k]
             s    == res.out[k]
         IN  /\ s.label = <<"prop", k>>
             /\ type.kind = "BoolType" =>
                  IF req.supports_choice
                  THEN s.form = "choice" /\ s.choices = <<"true", "false">>
                  ELSE s.form = "empty"
             /\ type.kind = "StringType" /\ type.translated =>
                  s.form = "translated_string"
             /\ Bounded(type) => s.form = "choice" /\ s.choices = type.members
             /\ type.kind \notin {"BoolType", "StringType"} /\ ~Bounded(type) =>
                  s.form = "empty"

\* C8 amended: one suggestion per property; a boolean yields the true/false
\* picker when the client supports choices and the empty placeholder when it
\* does not; a string the translatable-string snippet when marked translatable
\* and the plain string snippet otherwise; an enumeration of at most 10 members
\* a choice list of its members when the client supports choices and the
\* empty placeholder when it does not; a Gtk.Expression property the
\* expression snippet; any other type the empty placeholder.
C8_FormByKind ==
  PropsDone =>
    /\ Len(res.out) = Len(req.gir_class.properties)
    /\ \A k \in 1..Len(res.out) :
         LET type == req.gir_class.properties[k]
             s    == res.out[k]
         IN  /\ s.label = <<"prop", k>>
             /\ s.kind = "Property"
             /\ type.kind = "BoolType" =>
                  IF req.supports_choice
                  THEN s.form = "choice" /\ s.choices = <<"true", "false">>
                  ELSE s.form = "empty"
             /\ type.kind = "StringType" =>
                  s.form = IF type.translated THEN "translated_string" ELSE "string"
             /\ Bounded(type) =>
                  IF req.supports_choice
                  THEN s.form = "choice" /\ s.choices = type.members
                  ELSE s.form = "empty"
             /\ type.full_name = "Gtk.Expression" => s.form = "expr"
             /\ /\ type.kind \notin {"BoolType", "StringType"}
                /\ ~Bounded(type)
                /\ type.full_name # "Gtk.Expression"
                => s.form = "empty"

\* the client supports no choices: a bounded enumeration gets the empty
\* placeholder, next to a Gtk.Expression property with its expression snippet
C8_Witness ==
  /\ PropsDone
  /\ ~req.supports_choice
  /\ \E k \in 1..Len(res.out) :
       Bounded(req.gir_class.properties[k]) /\ res.out[k].form = "empty"
  /\ \E k \in 1..Len(res.out) :
       req.gir_class.properties[k].full_name = "Gtk.Expression" /\ res.out[k].form = "expr"

(***************************************************************************)
(* Properties of the validators.                                           *)
(***************************************************************************)
ValidateDone(parent) == pc = "done" /\ req.op = "validate" /\ req.parent = parent

\* how many diagnostics with this message are attributed to child k
Reported(k, message) ==
  Cardinality({ i \in 1..Len(res.diagnostics) :
                  res.diagnostics[i] = [node |-> k, message |-> message] })

\* C9: among the responses of one block, one "Duplicate response ID" diagnostic
\* for each response whose id equals that of an earlier sibling and none for a
\* first occurrence, so k responses sharing an id yield k-1; likewise for
\* repeated responses blocks and repeated template blocks under one parent.
C9_DuplicateDetection ==
  /\ ValidateDone("ExtAdwResponseDialog") =>
       LET c == req.children
       IN  /\ \A k \in 1..Len(c) :
                Reported(k, <<"Duplicate response ID", c[k].id>>) =
                  IF \E j \in 1..(k - 1) : c[j].id = c[k].id THEN 1 ELSE 0
           /\ Len(res.diagnostics) =
                Len(c) - Cardinality({ c[k].id : k \in 1..Len(c) })
  /\ ValidateDone("ObjectContent") =>
       LET c == req.children
           Count(t) == Cardinality({ k \in 1..Len(c) : c[k].type = t })
           Extra(t) == IF Count(t) = 0 THEN 0 ELSE Count(t) - 1
       IN  /\ \A k \in 1..Len(c) :
                /\ Reported(k, <<"Duplicate responses block">>) =
                     IF /\ c[k].type = "ExtAdwResponseDialog"
                        /\ \E j \in 1..(k - 1) : c[j].type = c[k].type
                     THEN 1 ELSE 0
                /\ Reported(k, <<"Duplicate template block">>) =
                     IF /\ c[k].type = "ExtListItemFactory"
                        /\ \E j \in 1..(k - 1) : c[j].type = c[k].type
                     THEN 1 ELSE 0
           /\ Len(res.diagnostics) =
                Extra("ExtAdwResponseDialog") + Extra("ExtListItemFactory")

\* three responses share an id: the second and the third are reported
C9_Witness ==
  /\ ValidateDone("ExtAdwResponseDialog")
  /\ Len(req.children) = 3
  /\ \A k \in 1..3 : req.children[k].id = "ok"
  /\ Len(res.diagnostics) = 2
  /\ res.diagnostics[1].node = 2
  /\ res.diagnostics[2].node = 3

HasFlag(f) == \E k \in 1..Len(req.children) : req.children[k].flag = f

\* C10: the "exclusive" diagnostic is reported exactly if the response carries
\* both a 'suggested' and a 'destructive' flag, and a flag written twice yields
\* one diagnostic in total, the "Duplicate" one on its second occurrence.
C10_FlagDiagnostics ==
  ValidateDone("ExtAdwResponseDialogResponse") =>
    /\ (\E i \in 1..Len(res.diagnostics) :
          res.diagnostics[i].message = <<"'suggested' and 'destructive' are exclusive">>)
       <=> (HasFlag("suggested") /\ HasFlag("destructive"))
    /\ Len(req.children) = 2 /\ req.children[1].flag = req.children[2].flag =>
         res.diagnostics =
           <<[node |-> 2, message |-> <<"Duplicate flag", req.children[2].flag>>]>>

(***************************************************************************)
(* Properties of the 'template' sub-block.                                 *)
(***************************************************************************)
TemplatesDone == pc = "done" /\ req.op = "validate_templates"

TypeErrorMessage ==
  <<"Only Gtk.ListItem, Gtk.ListHeader, Gtk.ColumnViewRow, or Gtk.ColumnViewCell is allowed as a type here">>

\* how many type errors are attributed to sub-block k
TypeErrors(k) ==
  Cardinality({ i \in 1..Len(res.errors) :
                  res.errors[i].node = k /\ res.errors[i].message = TypeErrorMessage })

\* the upgrade diagnostics attributed to sub-block k, among errors and warnings
UpgradesIn(diagnostics, k) ==
  { i \in 1..Len(diagnostics) :
      diagnostics[i].node = k /\ diagnostics[i].class = "UpgradeWarning" }

ListItemTypes ==
  {"Gtk.ListItem", "Gtk.ListHeader", "Gtk.ColumnViewRow", "Gtk.ColumnViewCell"}

\* C11: a 'template' sub-block without a type name resolves to Gtk.ListItem and
\* gets exactly one upgrade warning, a warning and not an error, whose quick-fix
\* is 'template ListItem', and no type error; a sub-block with a type name gets
\* no upgrade warning and gets the type error exactly if the named type is not
\* Gtk.ListItem, Gtk.ListHeader, Gtk.ColumnViewRow or Gtk.ColumnViewCell; no
\* sub-block gets both the upgrade warning and the type error.
C11_TemplateTypeHandling ==
  TemplatesDone =>
    \A k \in 1..Len(req.children) :
      LET self == req.children[k]
          upgrades == UpgradesIn(res.warnings, k)
      IN  /\ UpgradesIn(res.errors, k) = {}
          /\ TypeErrors(k) <= 1
          /\ self.TypeName = <<>> =>
               /\ res.gir_class[k].full_name = "Gtk.ListItem"
               /\ Cardinality(upgrades) = 1
               /\ \A i \in upgrades :
                    /\ Len(res.warnings[i].actions) = 1
                    /\ res.warnings[i].actions[1].replace_with = "template ListItem"
               /\ TypeErrors(k) = 0
          /\ self.TypeName # <<>> =>
               /\ res.gir_class[k].full_name = self.TypeName[1].gir_type.full_name
               /\ upgrades = {}
               /\ TypeErrors(k) = 1 <=>
                    self.TypeName[1].gir_type.full_name \notin ListItemTypes
          /\ ~(upgrades # {} /\ TypeErrors(k) > 0)

\* one object holds a sub-block without a type name, one naming Gtk.Box and one
\* naming Gtk.ColumnViewCell: one warning on the first, one type error on the
\* second, neither on the third
C11_Witness ==
  /\ TemplatesDone
  /\ Len(req.children) = 3
  /\ req.children[1].TypeName = <<>>
  /\ req.children[2].TypeName # <<>>
  /\ req.children[2].TypeName[1].gir_type.full_name = "Gtk.Box"
  /\ req.children[3].TypeName # <<>>
  /\ req.children[3].TypeName[1].gir_type.full_name = "Gtk.ColumnViewCell"
  /\ Len(res.warnings) = 1
  /\ res.warnings[1].node = 1
  /\ TypeErrors(1) = 0
  /\ TypeErrors(2) = 1
  /\ TypeErrors(3) = 0

====
